---------------------------- MODULE Spec2Model ----------------------------
(***************************************************************************)
(* Ride dispatch of mooveit-backend: the HTTP handlers that move a         *)
(* RideRequest through its lifecycle and keep DriverLocation.IsAvailable   *)
(* in step with it.  Every handler runs in its own goroutine; the database *)
(* (PostgreSQL through GORM) is the only shared state.  One step of the    *)
(* model is one database statement of a handler (a transaction's writes    *)
(* become visible together, at its commit) followed by the code up to the  *)
(* next statement.  db.Save writes the whole row from the handler's local  *)
(* copy.  The handlers hand their WebSocket messages to the Hub, which     *)
(* keeps the registered connections and a bounded outbound queue for each; *)
(* the connection's writePump writes the queue to the socket in order.     *)
(***************************************************************************)
EXTENDS Integers, FiniteSets, Sequences, TLC

\* ------------------------------------------------------------------ bounds
MaxRequests == 3
\* room in a connection's outbound queue (make(chan []byte, 256), scaled down)
SendCap == 2
\* Hub calls made in the runs of the Hub on its own
MaxCalls == 2

\* ------------------------------------------------------------- identities
Drivers == {1, 2}
Clients == {3, 4}
Users == Drivers \cup Clients
RideIds == {1, 2}
Procs == {1, 2}
\* places along a road, in kilometres
Positions == {0, 20}
\* WebSocket connections and the user each was opened by (Client.ID)
Conns == {1, 2, 3}
ConnUser(c) == CASE c = 1 -> 3 [] c = 2 -> 3 [] OTHER -> 1
\* what CompleteTrip can submit as (actualFare, actualDistance, actualDuration)
Actuals == {1, 2}
\* input.Rating of RateTrip, after its 1..5 validation
Ratings == {1, 5}

UserTypeClient == "client"
UserTypeDriver == "driver"
UserType(u) == IF u \in Drivers THEN UserTypeDriver ELSE UserTypeClient

\* ------------------------------------------------------------ ride status
RideStatusPending == "pending"
RideStatusAccepted == "accepted"
RideStatusArrived == "arrived"
RideStatusStarted == "started"
RideStatusCompleted == "completed"
RideStatusCancelled == "cancelled"

RideStatuses ==
  {RideStatusPending, RideStatusAccepted, RideStatusArrived,
   RideStatusStarted, RideStatusCompleted, RideStatusCancelled}

\* input.Status of UpdateRideStatus is any non-empty string
StatusInputs == RideStatuses \cup {"bogus"}

Terminal == {RideStatusCompleted, RideStatusCancelled}
Active == {RideStatusAccepted, RideStatusArrived, RideStatusStarted}

\* ---------------------------------------------------------------- records
\* RideRequest; driver = 0 is DriverID == nil
RideRequest(c, d, s) == [client |-> c, driver |-> d, status |-> s]
NoRide == [client |-> 0, driver |-> 0, status |-> "none"]

\* DriverLocation
DriverLocation(on, av, pos) ==
  [exists |-> TRUE, online |-> on, available |-> av, pos |-> pos]
NoLoc == [exists |-> FALSE, online |-> FALSE, available |-> FALSE, pos |-> 0]

\* TripCompletion; a rating of 0 is a nil *float64
TripCompletion(r, d, c, a) ==
  [ride |-> r, driver |-> d, client |-> c, actual |-> a,
   driverRating |-> 0, clientRating |-> 0]
NoCompletion == TripCompletion(0, 0, 0, 0)

NoRequest ==
  [op |-> "none", user |-> 0, ride |-> 0, status |-> "", avail |-> FALSE, pos |-> 0,
   actual |-> 0, rating |-> 0]

\* a response: the request answered and the HTTP status; actual is the body of
\* GetTripCompletion's answer, found the rides in GetDriverAssignedRides's
Response(rq, code) ==
  [op |-> rq.op, user |-> rq.user, ride |-> rq.ride, code |-> code, actual |-> 0,
   found |-> {}]
NoOut == [op |-> "none", user |-> 0, ride |-> 0, code |-> 0, actual |-> 0, found |-> {}]

\* WebSocketMessage with the address it is sent to: a user (BroadcastToUser), a
\* role (BroadcastToUserType) or everyone (BroadcastToAll)
ToAll == "all"
Message(type, user, role) == [type |-> type, user |-> user, role |-> role]
ToUser(type, u) == Message(type, u, "")
NoMessage == Message("", 0, "")

\* a Hub call in progress: its message, the connections its range loop has
\* produced, those it has queued the message on, and the loop variable
NoIter == [m |-> NoMessage, seen |-> {}, got |-> {}, cur |-> 0]

\* the two goroutines of a connection: readPump is reading, has ended (its deferred
\* c.Hub.unregister <- c is waiting for Hub.Run) or is done; writePump is running
\* or has returned
Pumps(r, w) == [read |-> r, write |-> w]
NoPumps == Pumps("none", "none")
Pumping == Pumps("reading", "running")

VARIABLES
  rides,        \* table ride_requests: RideIds -> RideRequest or NoRide
  locs,         \* table driver_locations: Drivers -> DriverLocation or NoLoc
  completions,  \* table trip_completions: its rows
  pc,           \* per request goroutine: its position in the handler
  req,          \* per request goroutine: the request it is serving
  snapRide,     \* the handler's local rideRequest
  snapLoc,      \* the handler's local driverLocation / location
  out,          \* the response written by the last step, if it wrote one
  accepted,     \* history: per ride, the drivers AcceptRide has answered 200
  nreq,         \* requests issued so far
  overlap,      \* the load: whether a request may arrive while another is served
  snapTrip,     \* the handler's local completion (RateTrip)
  sent,         \* the messages the last step handed to the Hub, in order
  clients,      \* Hub.clients: the registered connections
  send,         \* per connection: the content of its Send channel
  closed,       \* the connections whose Send channel has been closed
  wire,         \* per connection: what writePump has written to the socket
  iter,         \* per goroutine: the Hub call it is in, when calls overlap
  pumps,        \* per connection: where its readPump and writePump are
  cache         \* Redis: per driver, the value of driver:availability:<id>, "" if none

hub == <<clients, send, closed, wire, pumps>>
vars ==
  <<rides, locs, completions, pc, req, snapRide, snapLoc, out, accepted, nreq, overlap,
    snapTrip, sent, clients, send, closed, wire, iter, pumps, cache>>
db == <<rides, locs, completions>>

\* trip_completions rows of a ride
CompletionsOf(r) == {row \in completions : row.ride = r}
HasCompletion(r) == CompletionsOf(r) # {}

TypeOK ==
  /\ \A r \in RideIds :
       \/ rides[r] = NoRide
       \/ /\ rides[r].client \in Clients
          /\ rides[r].driver \in Drivers \cup {0}
          /\ rides[r].status \in StatusInputs
  /\ \A d \in Drivers : locs[d] = NoLoc \/ (locs[d].exists /\ locs[d].pos \in Positions)
  /\ \A row \in completions : row.ride \in RideIds /\ row.actual \in Actuals
  /\ nreq \in 0..MaxRequests \cup 0..MaxCalls
  /\ clients \subseteq Conns /\ closed \subseteq Conns
  /\ cache \in [Drivers -> {"", "true", "false"}]
  /\ \A c \in Conns : Len(send[c]) <= SendCap

\* The database as some requests have left it: ride 1 pending, ride 2 pending
\* or not yet requested; each driver either has never sent a location or is
\* online and available.
InitState ==
  /\ rides \in {f \in [RideIds -> {NoRide, RideRequest(3, 0, RideStatusPending),
                                   RideRequest(4, 0, RideStatusPending)}] :
                  /\ f[1] = RideRequest(3, 0, RideStatusPending)
                  /\ f[2] \in {NoRide, RideRequest(4, 0, RideStatusPending)}}
  /\ locs \in [Drivers -> {NoLoc, DriverLocation(TRUE, TRUE, 0)}]
  /\ completions = {}
  /\ pc = [p \in Procs |-> "idle"]
  /\ req = [p \in Procs |-> NoRequest]
  /\ snapRide = [p \in Procs |-> NoRide]
  /\ snapLoc = [p \in Procs |-> NoLoc]
  /\ snapTrip = [p \in Procs |-> NoCompletion]
  /\ iter = [p \in Procs |-> NoIter]
  /\ out = NoOut
  /\ sent = <<>>
  /\ accepted = [r \in RideIds |-> {}]
  /\ nreq = 0
  /\ cache = [d \in Drivers |-> ""]

\* NewHub: no connection registered
NewHub ==
  /\ clients = {}
  /\ send = [c \in Conns |-> <<>>]
  /\ closed = {}
  /\ wire = [c \in Conns |-> <<>>]
  /\ pumps = [c \in Conns |-> NoPumps]

Init == InitState /\ NewHub /\ overlap = TRUE
\* the same server, given its requests one at a time
InitSeq == InitState /\ NewHub /\ overlap = FALSE

\* ---------------------------------------------------------- handler plumbing
Request(op, u, r) ==
  [op |-> op, user |-> u, ride |-> r, status |-> "", avail |-> FALSE, pos |-> 0,
   actual |-> 0, rating |-> 0]

\* a request arrives and a goroutine starts serving it
Start(p) ==
  /\ pc[p] = "idle"
  /\ overlap \/ \A q \in Procs : pc[q] = "idle"
  /\ nreq < MaxRequests
  /\ nreq' = nreq + 1

\* ---------------------------------------------------------------- the Hub
HubState == [clients |-> clients, send |-> send, closed |-> closed]

\* select { case client.Send <- message: default: close(client.Send);
\* delete(h.clients, client) } for each connection addressed; BroadcastToAll only
\* skips a connection whose queue is full
Offer(h, targets, m, evict) ==
  LET full == {c \in targets : Len(h.send[c]) >= SendCap} IN
    [clients |-> IF evict THEN h.clients \ full ELSE h.clients,
     send |-> [c \in Conns |-> IF c \in targets \ full
                                THEN Append(h.send[c], m) ELSE h.send[c]],
     closed |-> IF evict THEN h.closed \cup full ELSE h.closed]

\* client.ID == userID
IsUser(c, u) == ConnUser(c) = u
\* client.UserType == userType
IsUserType(c, t) == UserType(ConnUser(c)) = t

\* one call, no other Hub call overlapping it: the loop over h.clients visits
\* each connection once and its effects on different connections are independent
BroadcastToUser(h, u, m) == Offer(h, {c \in h.clients : IsUser(c, u)}, m, TRUE)

BroadcastToUserType(h, t, m) == Offer(h, {c \in h.clients : IsUserType(c, t)}, m, TRUE)

BroadcastToAll(h, m) == Offer(h, h.clients, m, FALSE)

\* the Hub after a handler's calls, made in this order, each with the message's address
RECURSIVE HubAfter(_, _)
HubAfter(h, msgs) ==
  IF msgs = <<>> THEN h
  ELSE LET m == Head(msgs)
           h1 == IF m.user # 0 THEN BroadcastToUser(h, m.user, m)
                 ELSE IF m.role = ToAll THEN BroadcastToAll(h, m)
                 ELSE BroadcastToUserType(h, m.role, m)
       IN HubAfter(h1, Tail(msgs))

\* the step makes these Hub calls
Sends(msgs) ==
  /\ sent' = msgs
  /\ LET h == HubAfter(HubState, msgs) IN
       /\ clients' = h.clients
       /\ send' = h.send
       /\ closed' = h.closed
  /\ UNCHANGED <<wire, pumps>>

\* the handler variables, for the steps of the Hub and of the connections
handlers == <<db, pc, req, snapRide, snapLoc, snapTrip, accepted, overlap, cache>>

\* the positions of a goroutine inside BroadcastToUser, BroadcastToUserType or
\* BroadcastToAll, where it holds h.mutex.RLock
InBroadcast == {"b_range", "b_offer", "b_evict"}

\* HandleWebSocket: a new connection c; client.Hub.register <- client, and Hub.Run
\* adds it to h.clients under h.mutex.Lock; go client.writePump(); go client.readPump()
HandleWebSocket(c) ==
  /\ pumps[c] = NoPumps
  /\ c \notin clients /\ c \notin closed
  /\ \A p \in Procs : pc[p] \notin InBroadcast
  /\ clients' = clients \cup {c}
  /\ pumps' = [pumps EXCEPT ![c] = Pumping]
  /\ sent' = <<>>
  /\ out' = NoOut
  /\ UNCHANGED <<handlers, nreq, send, closed, wire, iter>>

\* readPump: c.Conn.ReadMessage() fails (the peer went away, or writePump closed
\* the socket) and the loop breaks; the deferred c.Hub.unregister <- c waits
ReadPump_End(c) ==
  /\ pumps[c].read = "reading"
  /\ pumps' = [pumps EXCEPT ![c].read = "ended"]
  /\ sent' = <<>>
  /\ out' = NoOut
  /\ UNCHANGED <<handlers, nreq, clients, send, closed, wire, iter>>

\* Hub.Run, case client := <-h.unregister, between Lock and Unlock:
\* if _, ok := h.clients[client]; ok { delete(h.clients, client); close(client.Send) }
\* (closing a channel that is closed already panics)
UnregisterIn_NoClose(h, c) ==
  [clients |-> h.clients \ {c}, closed |-> h.closed, panics |-> FALSE]
UnregisterIn_Unchecked(h, c) ==
  [clients |-> h.clients \ {c}, closed |-> h.closed \cup {c}, panics |-> c \in h.closed]
UnregisterIn(h, c) ==
  IF c \in h.clients
  THEN [clients |-> h.clients \ {c}, closed |-> h.closed \cup {c}, panics |-> c \in h.closed]
  ELSE [clients |-> h.clients, closed |-> h.closed, panics |-> FALSE]

\* the process ends (a fatal error of the runtime, or a panic outside a request
\* handler): every goroutine and every connection is gone
Fatal ==
  /\ pc' = [p \in Procs |-> "idle"]
  /\ iter' = [p \in Procs |-> NoIter]
  /\ clients' = {}
  /\ closed' = closed \cup clients
  /\ pumps' = [c \in Conns |-> IF pumps[c] = NoPumps THEN NoPumps
                                ELSE Pumps("done", "stopped")]
  /\ out' = NoOut

\* what Hub.Run has done for an unregister: code 1 when it removed the connection
\* and closed its queue, 0 when the connection was registered no longer
Disconnected(c, removed) ==
  [op |-> "unregister", user |-> ConnUser(c), ride |-> 0,
   code |-> IF removed THEN 1 ELSE 0, actual |-> 0, found |-> {}]

\* Hub.Run receives from h.unregister what the readPump of c has sent
Unregister(c) ==
  /\ pumps[c].read = "ended"
  /\ \A p \in Procs : pc[p] \notin InBroadcast
  /\ sent' = <<>>
  /\ UNCHANGED <<db, req, snapRide, snapLoc, snapTrip, accepted, overlap, nreq, send, wire,
                 cache>>
  /\ LET h == UnregisterIn(HubState, c) IN
       IF h.panics THEN Fatal
       ELSE /\ clients' = h.clients
            /\ closed' = h.closed
            /\ pumps' = [pumps EXCEPT ![c].read = "done"]
            /\ out' = Disconnected(c, c \in clients)
            /\ UNCHANGED <<pc, iter>>

\* what the callers of the Hub send
Messages ==
  {ToUser("ride_status_update", u) : u \in {ConnUser(c) : c \in Conns}}
    \cup {Message("ride_request", 0, UserTypeDriver)}
    \cup {Message("driver_location_update", 0, ToAll)}

\* the test of the loop body: BroadcastToUser's, BroadcastToUserType's, or none
Addressed(c, m) ==
  IF m.user # 0 THEN IsUser(c, m.user)
  ELSE IF m.role = ToAll THEN TRUE
  ELSE IsUserType(c, m.role)

\* the call returns (the deferred RUnlock) and its handler answers
Broadcast_End(p, code) ==
  /\ pc' = [pc EXCEPT ![p] = "idle"]
  /\ iter' = [iter EXCEPT ![p] = NoIter]
  /\ out' = [op |-> "broadcast", user |-> iter[p].m.user, ride |-> 0, code |-> code,
             actual |-> 0, found |-> {}]

\* a request handler calls the Hub with message m: h.mutex.RLock()
Broadcast_Begin(p, m) ==
  /\ pc[p] = "idle"
  /\ nreq < MaxCalls
  /\ nreq' = nreq + 1
  /\ pc' = [pc EXCEPT ![p] = "b_range"]
  /\ iter' = [iter EXCEPT ![p] = [NoIter EXCEPT !.m = m]]
  /\ sent' = <<m>>
  /\ out' = NoOut
  /\ UNCHANGED <<db, req, snapRide, snapLoc, snapTrip, accepted, overlap, hub, cache>>

\* for client := range h.clients: the loop produces the next connection that passes
\* the test of the loop body, or ends
Broadcast_Range(p) ==
  /\ pc[p] = "b_range"
  /\ sent' = <<>>
  /\ UNCHANGED <<db, req, snapRide, snapLoc, snapTrip, accepted, overlap, hub, nreq,
                 cache>>
  /\ LET rest == {c \in clients \ iter[p].seen : Addressed(c, iter[p].m)} IN
       IF rest = {} THEN Broadcast_End(p, 200)
       ELSE \E c \in rest :
              /\ iter' = [iter EXCEPT ![p].seen = @ \cup {c}, ![p].cur = c]
              /\ pc' = [pc EXCEPT ![p] = "b_offer"]
              /\ out' = NoOut

\* where the default branch of the select leads: BroadcastToAll only logs and goes
\* on with the loop, BroadcastToUser and BroadcastToUserType evict
OnFull_AlwaysEvict(m) == "b_evict"
OnFull(m) == IF m.role = ToAll THEN "b_range" ELSE "b_evict"

\* select { case client.Send <- message: default: ... }: a send on a closed channel
\* panics (gin's Recovery answers 500); BroadcastToAll's default only logs
Broadcast_Offer(p) ==
  /\ pc[p] = "b_offer"
  /\ sent' = <<>>
  /\ UNCHANGED <<db, req, snapRide, snapLoc, snapTrip, accepted, overlap, nreq,
                 clients, closed, wire, pumps, cache>>
  /\ LET c == iter[p].cur
         m == iter[p].m
     IN IF c \in closed
        THEN /\ Broadcast_End(p, 500)
             /\ UNCHANGED send
        ELSE IF Len(send[c]) < SendCap
        THEN /\ send' = [send EXCEPT ![c] = Append(@, m)]
             /\ iter' = [iter EXCEPT ![p].got = @ \cup {c}]
             /\ pc' = [pc EXCEPT ![p] = "b_range"]
             /\ out' = NoOut
        ELSE /\ pc' = [pc EXCEPT ![p] = OnFull(m)]
             /\ out' = NoOut
             /\ UNCHANGED <<send, iter>>

\* default: close(client.Send); delete(h.clients, client), holding only the read
\* lock: closing a channel already closed panics, and the map write races with
\* the other goroutines inside a Hub call, which the Go runtime may find and end
\* the process for
Broadcast_Evict(p) ==
  /\ pc[p] = "b_evict"
  /\ sent' = <<>>
  /\ UNCHANGED <<db, req, snapRide, snapLoc, snapTrip, accepted, overlap, nreq, send, wire,
                 cache>>
  /\ LET c == iter[p].cur IN
       IF c \in closed
       THEN /\ Broadcast_End(p, 500)
            /\ UNCHANGED <<clients, closed, pumps>>
       ELSE \/ /\ closed' = closed \cup {c}
               /\ clients' = clients \ {c}
               /\ pc' = [pc EXCEPT ![p] = "b_range"]
               /\ out' = NoOut
               /\ UNCHANGED <<iter, pumps>>
            \/ /\ \E q \in Procs \ {p} : pc[q] \in InBroadcast
               /\ Fatal

\* Client.writePump: message, ok := <-c.Send; when the queue is closed and empty
\* it writes the close message and returns; c.Conn.WriteMessage(TextMessage,
\* message) may fail, and then it returns as well
WritePump(c) ==
  /\ pumps[c].write = "running"
  /\ send[c] # <<>> \/ c \in closed
  /\ sent' = <<>>
  /\ out' = NoOut
  /\ UNCHANGED <<handlers, nreq, clients, closed, iter>>
  /\ IF send[c] # <<>>
     THEN /\ send' = [send EXCEPT ![c] = Tail(@)]
          /\ \E ok \in BOOLEAN :
               IF ok
               THEN /\ wire' = [wire EXCEPT ![c] = Append(@, Head(send[c]))]
                    /\ UNCHANGED pumps
               ELSE /\ pumps' = [pumps EXCEPT ![c].write = "stopped"]
                    /\ UNCHANGED wire
     ELSE /\ pumps' = [pumps EXCEPT ![c].write = "stopped"]
          /\ UNCHANGED <<send, wire>>

\* the step makes no Hub call
Silent == sent' = <<>> /\ UNCHANGED hub

\* c.JSON(...); return
Answer(p, response) ==
  /\ pc' = [pc EXCEPT ![p] = "idle"]
  /\ req' = [req EXCEPT ![p] = NoRequest]
  /\ snapRide' = [snapRide EXCEPT ![p] = NoRide]
  /\ snapLoc' = [snapLoc EXCEPT ![p] = NoLoc]
  /\ snapTrip' = [snapTrip EXCEPT ![p] = NoCompletion]
  /\ out' = response
  /\ UNCHANGED <<overlap, iter>>

Reply(p, rq, code) == Answer(p, Response(rq, code))

\* ... having made no Hub call in this step
Respond(p, rq, code) == Reply(p, rq, code) /\ Silent

\* ... having made these Hub calls
RespondSending(p, rq, code, msgs) == Reply(p, rq, code) /\ Sends(msgs)

\* the handler goes on to its next statement holding these locals
Proceed(p, rq, label, ride, loc, trip) ==
  /\ pc' = [pc EXCEPT ![p] = label]
  /\ req' = [req EXCEPT ![p] = rq]
  /\ snapRide' = [snapRide EXCEPT ![p] = ride]
  /\ snapLoc' = [snapLoc EXCEPT ![p] = loc]
  /\ snapTrip' = [snapTrip EXCEPT ![p] = trip]
  /\ out' = NoOut
  /\ Silent
  /\ UNCHANGED <<overlap, iter>>

Goto(p, rq, label, ride, loc) == Proceed(p, rq, label, ride, loc, NoCompletion)

\* ------------------------------------------------------------ the guards
\* rideRequest.Status != models.RideStatusPending
IsPending(ride) == ride.status = RideStatusPending

\* rideRequest.DriverID == nil || *rideRequest.DriverID != driverID
DriverAssigned(ride, u) == ride.driver # 0 /\ ride.driver = u

\* the two userType checks of CancelRide and UpdateRideStatus
AuthorizedParty(ride, u) ==
  /\ UserType(u) = UserTypeClient => ride.client = u
  /\ UserType(u) = UserTypeDriver => (ride.driver # 0 /\ ride.driver = u)

CanArrive_StartedToo(ride) == ride.status \in {RideStatusAccepted, RideStatusStarted}
CanArrive(ride) == ride.status = RideStatusAccepted

CanStart(ride) == ride.status \in {RideStatusAccepted, RideStatusArrived}

CanComplete(ride) == ride.status = RideStatusStarted

CanCancel_Always(ride) == TRUE
CanCancel(ride) == ride.status \notin Terminal


\* ------------------------------------------------------------- AcceptRide
\* rideRequest.DriverID = &driverID; rideRequest.Status = accepted
\* services.SetDriverAvailability: RedisClient.Set(driver:availability:<id>, value)
SetDriverAvailability(d, isAvailable) ==
  [cache EXCEPT ![d] = IF isAvailable THEN "true" ELSE "false"]

\* a call of it whose error the handler ignores: the entry is set unless Redis failed
SetsDriverAvailability(d, isAvailable) ==
  \E redis \in BOOLEAN :
    cache' = IF redis THEN SetDriverAvailability(d, isAvailable) ELSE cache

AcceptedRide(ride, u) == [ride EXCEPT !.driver = u, !.status = RideStatusAccepted]

\* lines 16-43: role check, db.First(&rideRequest), the pending check
AcceptRide_Read(p, u, r) ==
  /\ Start(p)
  /\ UNCHANGED <<db, accepted, cache>>
  /\ IF UserType(u) # UserTypeDriver THEN Respond(p, Request("accept", u, r), 403)
     ELSE IF rides[r] = NoRide THEN Respond(p, Request("accept", u, r), 404)
     ELSE IF ~IsPending(rides[r]) THEN Respond(p, Request("accept", u, r), 400)
     ELSE Goto(p, Request("accept", u, r), "a_loc", rides[r], NoLoc)

\* lines 45-55: db.Where(driver_id).First(&driverLocation), the availability check
AcceptRide_ReadLoc(p) ==
  /\ pc[p] = "a_loc"
  /\ UNCHANGED <<db, accepted, nreq, cache>>
  /\ LET loc == locs[req[p].user] IN
       IF ~loc.exists THEN Respond(p, req[p], 400)
       ELSE IF ~loc.available THEN Respond(p, req[p], 400)
       ELSE Goto(p, req[p], "a_tx", snapRide[p], loc)

\* lines 57-86: the transaction: Save(&rideRequest), Save(&driverLocation), Commit
AcceptRide_Tx(p) ==
  /\ pc[p] = "a_tx"
  /\ UNCHANGED <<completions, accepted, nreq, cache>>
  /\ \E ok \in BOOLEAN :
       IF ok
       THEN LET u == req[p].user
                ride == AcceptedRide(snapRide[p], u)
                loc == [snapLoc[p] EXCEPT !.available = FALSE]
            IN /\ rides' = [rides EXCEPT ![req[p].ride] = ride]
               /\ locs' = [locs EXCEPT ![u] = loc]
               /\ Goto(p, req[p], "a_post", ride, loc)
       ELSE /\ UNCHANGED <<rides, locs>>
            /\ Respond(p, req[p], 500)

\* lines 88-165: services.SetDriverAvailability(ctx, driverID, false), the client
\* lookup (500 when it fails), the notifications, 200
AcceptRide_Notify(p) ==
  /\ pc[p] = "a_post"
  /\ UNCHANGED <<db, nreq>>
  /\ SetsDriverAvailability(req[p].user, FALSE)
  /\ \E ok \in BOOLEAN :
       IF ok
       THEN /\ RespondSending(p, req[p], 200,
                  <<ToUser("ride_accepted", snapRide[p].client),
                    ToUser("ride_accepted", req[p].user)>>)
            /\ accepted' = [accepted EXCEPT ![req[p].ride] = @ \cup {req[p].user}]
       ELSE /\ Respond(p, req[p], 500)
            /\ UNCHANGED accepted

\* ------------------------------------------------- GetDriverAssignedRides
\* Where("driver_id = ? AND status IN (?)", driverID, {accepted, started})
AssignedStatuses == {RideStatusAccepted, RideStatusStarted}

\* part_010 lines 219-243: role check, the query (500 when it fails), c.JSON(200, rides)
GetDriverAssignedRides(p, u) ==
  /\ Start(p)
  /\ UNCHANGED <<db, accepted, cache>>
  /\ LET rq == Request("assigned", u, 0) IN
     IF UserType(u) # UserTypeDriver THEN Respond(p, rq, 403)
     ELSE \E ok \in BOOLEAN :
            IF ok
            THEN /\ Answer(p, [Response(rq, 200) EXCEPT !.found =
                                 {r \in RideIds : /\ rides[r].driver = u
                                                  /\ rides[r].status \in AssignedStatuses}])
                 /\ Silent
            ELSE Respond(p, rq, 500)

\* ------------------------------------------------------------- RejectRide
\* lines 169-195
RejectRide_Read(p, u, r) ==
  /\ Start(p)
  /\ UNCHANGED <<db, accepted, cache>>
  /\ IF UserType(u) # UserTypeDriver THEN Respond(p, Request("reject", u, r), 403)
     ELSE IF rides[r] = NoRide THEN Respond(p, Request("reject", u, r), 404)
     ELSE IF ~IsPending(rides[r]) THEN Respond(p, Request("reject", u, r), 400)
     ELSE Goto(p, Request("reject", u, r), "j_save", rides[r], NoLoc)

\* lines 197-215: Status = cancelled; db.Save(&rideRequest)
RejectRide_Save(p) ==
  /\ pc[p] = "j_save"
  /\ UNCHANGED <<locs, completions, accepted, nreq, cache>>
  /\ \E ok \in BOOLEAN :
       IF ok
       THEN /\ rides' = [rides EXCEPT ![req[p].ride] =
                           [snapRide[p] EXCEPT !.status = RideStatusCancelled]]
            /\ Respond(p, req[p], 200)
       ELSE /\ UNCHANGED rides
            /\ Respond(p, req[p], 500)

\* ---------------------------------------------------------- DriverArrived
\* lines 246-279
DriverArrived_Read(p, u, r) ==
  /\ Start(p)
  /\ UNCHANGED <<db, accepted, cache>>
  /\ IF UserType(u) # UserTypeDriver THEN Respond(p, Request("arrived", u, r), 403)
     ELSE IF rides[r] = NoRide THEN Respond(p, Request("arrived", u, r), 404)
     ELSE IF ~DriverAssigned(rides[r], u) THEN Respond(p, Request("arrived", u, r), 403)
     ELSE IF ~CanArrive(rides[r]) THEN Respond(p, Request("arrived", u, r), 400)
     ELSE Goto(p, Request("arrived", u, r), "d_save", rides[r], NoLoc)

\* lines 281-286: Status = arrived; db.Save(&rideRequest)
DriverArrived_Save(p) ==
  /\ pc[p] = "d_save"
  /\ UNCHANGED <<locs, completions, accepted, nreq, cache>>
  /\ \E ok \in BOOLEAN :
       IF ok
       THEN LET ride == [snapRide[p] EXCEPT !.status = RideStatusArrived] IN
            /\ rides' = [rides EXCEPT ![req[p].ride] = ride]
            /\ Goto(p, req[p], "d_post", ride, NoLoc)
       ELSE /\ UNCHANGED rides
            /\ Respond(p, req[p], 500)

\* lines 288-354: the client and driver lookups (500 when one fails), notifications, 200
DriverArrived_Notify(p) ==
  /\ pc[p] = "d_post"
  /\ UNCHANGED <<db, accepted, nreq, cache>>
  /\ \E ok \in BOOLEAN :
       IF ok
       THEN RespondSending(p, req[p], 200,
              <<ToUser("driver_arrived", snapRide[p].client),
                ToUser("driver_arrived", snapRide[p].client),
                ToUser("arrival_confirmed", req[p].user)>>)
       ELSE Respond(p, req[p], 500)

\* -------------------------------------------------------------- StartRide
\* lines 358-391
StartRide_Read(p, u, r) ==
  /\ Start(p)
  /\ UNCHANGED <<db, accepted, cache>>
  /\ IF UserType(u) # UserTypeDriver THEN Respond(p, Request("start", u, r), 403)
     ELSE IF rides[r] = NoRide THEN Respond(p, Request("start", u, r), 404)
     ELSE IF ~DriverAssigned(rides[r], u) THEN Respond(p, Request("start", u, r), 403)
     ELSE IF ~CanStart(rides[r]) THEN Respond(p, Request("start", u, r), 400)
     ELSE Goto(p, Request("start", u, r), "s_save", rides[r], NoLoc)

\* lines 393-398: Status = started; db.Save(&rideRequest)
StartRide_Save(p) ==
  /\ pc[p] = "s_save"
  /\ UNCHANGED <<locs, completions, accepted, nreq, cache>>
  /\ \E ok \in BOOLEAN :
       IF ok
       THEN LET ride == [snapRide[p] EXCEPT !.status = RideStatusStarted] IN
            /\ rides' = [rides EXCEPT ![req[p].ride] = ride]
            /\ Goto(p, req[p], "s_post", ride, NoLoc)
       ELSE /\ UNCHANGED rides
            /\ Respond(p, req[p], 500)

\* lines 400-466
StartRide_Notify(p) ==
  /\ pc[p] = "s_post"
  /\ UNCHANGED <<db, accepted, nreq, cache>>
  /\ \E ok \in BOOLEAN :
       IF ok
       THEN RespondSending(p, req[p], 200,
              <<ToUser("ride_started", snapRide[p].client),
                ToUser("ride_started", snapRide[p].client),
                ToUser("ride_started", req[p].user)>>)
       ELSE Respond(p, req[p], 500)

\* ----------------------------------------------------------- CompleteTrip
\* lines 528-588: role check, input validation, db.First(&rideRequest), the checks
CompleteTrip_Read(p, u, r, a) ==
  /\ Start(p)
  /\ UNCHANGED <<db, accepted, cache>>
  /\ LET rq == [Request("complete", u, r) EXCEPT !.actual = a] IN
     IF UserType(u) # UserTypeDriver THEN Respond(p, rq, 403)
       ELSE IF rides[r] = NoRide THEN Respond(p, rq, 404)
       ELSE IF ~DriverAssigned(rides[r], u) THEN Respond(p, rq, 403)
       ELSE IF ~CanComplete(rides[r]) THEN Respond(p, rq, 400)
       ELSE Goto(p, rq, "c_chk", rides[r], NoLoc)

\* lines 590-595: db.Where(ride_id).First(&existingCompletion)
CompleteTrip_CheckExisting(p) ==
  /\ pc[p] = "c_chk"
  /\ UNCHANGED <<db, accepted, nreq, cache>>
  /\ IF HasCompletion(req[p].ride) THEN Respond(p, req[p], 400)
     ELSE Goto(p, req[p], "c_tx", snapRide[p], NoLoc)

\* RideID is unique: an insert fails when a committed row has the same ride_id
UniqueRideID_Unchecked(r) == TRUE
UniqueRideID(r) == ~HasCompletion(r)

\* lines 608-633: tx.Create(&tripCompletion) (ride_id is unique), tx.Save(&rideRequest),
\* tx.Where(driver_id).First(&driverLocation); nothing is visible before the commit
CompleteTrip_Tx(p) ==
  /\ pc[p] = "c_tx"
  /\ UNCHANGED <<db, accepted, nreq, cache>>
  /\ \E ok \in BOOLEAN :
       IF ok /\ UniqueRideID(req[p].ride)
       THEN Goto(p, req[p], "c_commit",
                 [snapRide[p] EXCEPT !.status = RideStatusCompleted],
                 locs[req[p].user])
       ELSE Respond(p, req[p], 500)

\* lines 634-646: driverLocation.IsAvailable = true; tx.Save(&driverLocation); tx.Commit().
\* A transaction that inserted the same ride_id and committed first makes this one fail.
CompleteTrip_Commit(p) ==
  /\ pc[p] = "c_commit"
  /\ UNCHANGED <<accepted, nreq, cache>>
  /\ \E ok \in BOOLEAN :
       IF ok /\ UniqueRideID(req[p].ride)
       THEN LET u == req[p].user
                loc == [snapLoc[p] EXCEPT !.available = TRUE]
            IN /\ completions' = completions \cup
                    {TripCompletion(req[p].ride, u, snapRide[p].client, req[p].actual)}
               /\ rides' = [rides EXCEPT ![req[p].ride] = snapRide[p]]
               /\ locs' = IF snapLoc[p].exists THEN [locs EXCEPT ![u] = loc] ELSE locs
               /\ Goto(p, req[p], "c_post", snapRide[p], snapLoc[p])
       ELSE /\ UNCHANGED db
            /\ Respond(p, req[p], 500)

\* lines 648-719: services.SetDriverAvailability(ctx, driverID, true), the client and driver lookups (500 when one fails), notifications, 200
CompleteTrip_Notify(p) ==
  /\ pc[p] = "c_post"
  /\ UNCHANGED <<db, accepted, nreq>>
  /\ SetsDriverAvailability(req[p].user, TRUE)
  /\ \E ok \in BOOLEAN :
       IF ok
       THEN RespondSending(p, req[p], 200,
              <<ToUser("ride_completed", snapRide[p].client),
                ToUser("ride_completed", snapRide[p].client),
                ToUser("ride_completed", req[p].user)>>)
       ELSE Respond(p, req[p], 500)

\* ------------------------------------------------------ GetTripCompletion
\* part_008 lines 721-747: db.Where(ride_id).First(&completion), the authorization
\* check, c.JSON(200, completion)
GetTripCompletion(p, u, r) ==
  /\ Start(p)
  /\ UNCHANGED <<db, accepted, cache>>
  /\ LET rq == Request("get_completion", u, r) IN
     IF ~HasCompletion(r) THEN Respond(p, rq, 404)
       ELSE \E row \in CompletionsOf(r) :
              IF row.driver # u /\ row.client # u THEN Respond(p, rq, 403)
              ELSE /\ Answer(p, [Response(rq, 200) EXCEPT !.actual = row.actual])
                   /\ Silent

\* --------------------------------------------------------------- RateTrip
\* part_008 lines 750-785: input and its validation, db.Where(ride_id).First(&completion),
\* the authorization check
RateTrip_Read(p, u, r, rating) ==
  /\ Start(p)
  /\ UNCHANGED <<db, accepted, cache>>
  /\ LET rq == [Request("rate", u, r) EXCEPT !.rating = rating] IN
     IF ~HasCompletion(r) THEN Respond(p, rq, 404)
       ELSE \E row \in CompletionsOf(r) :
              IF row.driver # u /\ row.client # u THEN Respond(p, rq, 403)
              ELSE Proceed(p, rq, "t_save", NoRide, NoLoc, row)

\* lines 787-796: the client's rating goes to ClientRating, the driver's to DriverRating
Rated_ActualReset(row, u, rating) == [row EXCEPT !.actual = 0]
Rated(row, u, rating) ==
  IF UserType(u) = UserTypeClient
  THEN [row EXCEPT !.clientRating = rating]
  ELSE [row EXCEPT !.driverRating = rating]

\* lines 798-808: db.Save(&completion) writes the whole row
RateTrip_Save(p) ==
  /\ pc[p] = "t_save"
  /\ UNCHANGED <<rides, locs, accepted, nreq, cache>>
  /\ \E ok \in BOOLEAN :
       IF ok
       THEN /\ completions' = (completions \ CompletionsOf(req[p].ride))
                                \cup {Rated(snapTrip[p], req[p].user, req[p].rating)}
            /\ Respond(p, req[p], 200)
       ELSE /\ UNCHANGED completions
            /\ Respond(p, req[p], 500)

\* ------------------------------------------------------------- CancelRide
\* lines 168-200: db.First(&rideRequest), the two authorization checks, the status check
CancelRide_Read(p, u, r) ==
  /\ Start(p)
  /\ UNCHANGED <<db, accepted, cache>>
  /\ IF rides[r] = NoRide THEN Respond(p, Request("cancel", u, r), 404)
     ELSE IF ~AuthorizedParty(rides[r], u) THEN Respond(p, Request("cancel", u, r), 403)
     ELSE IF ~CanCancel(rides[r]) THEN Respond(p, Request("cancel", u, r), 400)
     ELSE Goto(p, Request("cancel", u, r), "k_save", rides[r], NoLoc)

\* lines 217-243: ride_cancelled to the bound driver, if any, and to the client
CancelMessages(ride) ==
  (IF ride.driver # 0 THEN <<ToUser("ride_cancelled", ride.driver)>> ELSE <<>>)
    \o <<ToUser("ride_cancelled", ride.client)>>

\* lines 202-207: Status = cancelled; db.Save(&rideRequest); with no driver bound the
\* handler only notifies and answers 200
CancelRide_Save(p) ==
  /\ pc[p] = "k_save"
  /\ UNCHANGED <<locs, completions, accepted, nreq, cache>>
  /\ \E ok \in BOOLEAN :
       IF ok
       THEN LET ride == [snapRide[p] EXCEPT !.status = RideStatusCancelled] IN
            /\ rides' = [rides EXCEPT ![req[p].ride] = ride]
            /\ IF ride.driver # 0 THEN Goto(p, req[p], "k_loc", ride, NoLoc)
               ELSE RespondSending(p, req[p], 200, CancelMessages(ride))
       ELSE /\ UNCHANGED rides
            /\ Respond(p, req[p], 500)

\* lines 210-212: db.Where(driver_id).First(&driverLocation)
CancelRide_ReadLoc(p) ==
  /\ pc[p] = "k_loc"
  /\ UNCHANGED <<db, accepted, nreq, cache>>
  /\ LET loc == locs[snapRide[p].driver] IN
       IF loc.exists THEN Goto(p, req[p], "k_saveloc", snapRide[p], loc)
       ELSE RespondSending(p, req[p], 200, CancelMessages(snapRide[p]))

\* lines 213-250: IsAvailable = true; db.Save(&driverLocation), its error ignored; 200
CancelRide_SaveLoc(p) ==
  /\ pc[p] = "k_saveloc"
  /\ UNCHANGED <<rides, completions, accepted, nreq, cache>>
  /\ \E ok \in BOOLEAN :
       locs' = IF ok
               THEN [locs EXCEPT ![snapRide[p].driver] =
                       [snapLoc[p] EXCEPT !.available = TRUE]]
               ELSE locs
  /\ RespondSending(p, req[p], 200, CancelMessages(snapRide[p]))

\* ------------------------------------------------------- UpdateRideStatus
\* lines 324-359: bind input.Status, db.First(&rideRequest), the authorization checks
UpdateRideStatus_Read(p, u, r, st) ==
  /\ Start(p)
  /\ UNCHANGED <<db, accepted, cache>>
  /\ LET rq == [Request("update", u, r) EXCEPT !.status = st] IN
     IF rides[r] = NoRide THEN Respond(p, rq, 404)
       ELSE IF ~AuthorizedParty(rides[r], u) THEN Respond(p, rq, 403)
       ELSE Goto(p, rq, "u_save", rides[r], NoLoc)

\* lines 361-390: Status = input.Status; db.Save(&rideRequest); notifications; 200
UpdateRideStatus_Save(p) ==
  /\ pc[p] = "u_save"
  /\ UNCHANGED <<locs, completions, accepted, nreq, cache>>
  /\ \E ok \in BOOLEAN :
       IF ok
       THEN /\ rides' = [rides EXCEPT ![req[p].ride] =
                           [snapRide[p] EXCEPT !.status = req[p].status]]
            /\ RespondSending(p, req[p], 200,
                 <<ToUser("ride_status_update", snapRide[p].client)>> \o
                 (IF snapRide[p].driver # 0
                  THEN <<ToUser("ride_status_update", snapRide[p].driver)>> ELSE <<>>))
       ELSE /\ UNCHANGED rides
            /\ Respond(p, req[p], 500)

\* --------------------------------------------------- UpdateDriverLocation
\* lines 16-57: role check, input, db.Where(driver_id).First(&location)
UpdateDriverLocation_Read(p, u, pos) ==
  /\ Start(p)
  /\ UNCHANGED <<db, accepted, cache>>
  /\ LET rq == [Request("location", u, 0) EXCEPT !.pos = pos] IN
     IF UserType(u) # UserTypeDriver THEN Respond(p, rq, 403)
       ELSE Goto(p, rq, "l_write", NoRide, locs[u])

\* lines 61-68: the record of a driver's first location update
NewDriverLocation_Offline(pos) == DriverLocation(FALSE, FALSE, pos)
NewDriverLocation(pos) == DriverLocation(TRUE, FALSE, pos)

\* lines 59-107: db.Create of a new record (driver_id is unique; IsAvailable keeps its
\* zero value) or db.Save of the record read, with the new position and IsOnline = true;
\* hub.SendDriverLocationUpdate
UpdateDriverLocation_Write(p) ==
  /\ pc[p] = "l_write"
  /\ UNCHANGED <<rides, completions, accepted, nreq, cache>>
  /\ LET u == req[p].user IN
     \E ok \in BOOLEAN :
       IF ok /\ (snapLoc[p].exists \/ ~locs[u].exists)
       THEN /\ locs' = [locs EXCEPT ![u] =
                          IF snapLoc[p].exists
                          THEN [snapLoc[p] EXCEPT !.pos = req[p].pos, !.online = TRUE]
                          ELSE NewDriverLocation(req[p].pos)]
            /\ RespondSending(p, req[p], 200,
                 <<Message("driver_location_update", 0, ToAll)>>)
       ELSE /\ UNCHANGED locs
            /\ Respond(p, req[p], 500)

\* ----------------------------------------------- UpdateDriverAvailability
\* lines 111-141: role check, input, services.SetDriverAvailability (500 when Redis
\* fails)
UpdateDriverAvailability_Set(p, u, av) ==
  /\ Start(p)
  /\ UNCHANGED <<db, accepted>>
  /\ LET rq == [Request("availability", u, 0) EXCEPT !.avail = av] IN
     IF UserType(u) # UserTypeDriver
     THEN /\ Respond(p, rq, 403)
          /\ UNCHANGED cache
     ELSE \E redis \in BOOLEAN :
            IF redis
            THEN /\ cache' = SetDriverAvailability(u, av)
                 /\ Goto(p, rq, "v_read", NoRide, NoLoc)
            ELSE /\ UNCHANGED cache
                 /\ Respond(p, rq, 500)

\* lines 143-148: db.Where(driver_id).First(&location), 404 when there is none
UpdateDriverAvailability_Read(p) ==
  /\ pc[p] = "v_read"
  /\ UNCHANGED <<db, accepted, nreq, cache>>
  /\ LET u == req[p].user IN
       IF ~locs[u].exists THEN Respond(p, req[p], 404)
       ELSE Goto(p, req[p], "v_save", NoRide, locs[u])

\* lines 150-162: location.IsAvailable = *input.IsAvailable; db.Save(&location)
UpdateDriverAvailability_Save(p) ==
  /\ pc[p] = "v_save"
  /\ UNCHANGED <<rides, completions, accepted, nreq, cache>>
  /\ \E ok \in BOOLEAN :
       IF ok
       THEN /\ locs' = [locs EXCEPT ![req[p].user] =
                          [snapLoc[p] EXCEPT !.available = req[p].avail]]
            /\ Respond(p, req[p], 200)
       ELSE /\ UNCHANGED locs
            /\ Respond(p, req[p], 500)

\* ------------------------------------------------------------ RequestRide
\* the id the database gives the next ride_requests row
NextRideId ==
  CHOOSE r \in RideIds : rides[r] = NoRide /\ \A q \in RideIds : q < r => rides[q] # NoRide

\* lines 15-88: role check, input, client lookup, db.Create(&rideRequest) as pending
RequestRide_Create(p, u, pickup) ==
  /\ \E r \in RideIds : rides[r] = NoRide
  /\ Start(p)
  /\ UNCHANGED <<locs, completions, accepted, cache>>
  /\ IF UserType(u) # UserTypeClient
     THEN /\ UNCHANGED rides
          /\ Respond(p, Request("request", u, 0), 403)
     ELSE LET rq == [Request("request", u, NextRideId) EXCEPT !.pos = pickup] IN
          \E ok \in BOOLEAN :
            IF ok
            THEN LET ride == RideRequest(u, 0, RideStatusPending) IN
                 /\ rides' = [rides EXCEPT ![NextRideId] = ride]
                 /\ Goto(p, rq, "q_find", ride, NoLoc)
            ELSE /\ UNCHANGED rides
                 /\ Respond(p, rq, 500)

\* utils.HaversineDistance, for places along the road
HaversineDistance(a, b) == IF a >= b THEN a - b ELSE b - a

\* driverDistance <= 10.0
SearchRadius == 10
WithinRadius_Anywhere(pickup, loc) == TRUE
WithinRadius(pickup, loc) == HaversineDistance(pickup, loc.pos) <= SearchRadius

\* db.Where("is_online = ? AND is_available = ?", true, true).Find(&locations)
FindOnlineAvailable ==
  {d \in Drivers : locs[d].exists /\ locs[d].online /\ locs[d].available}

\* the loop over locations: a ride_request to each driver found within the radius
RECURSIVE RideRequestMessages(_, _)
RideRequestMessages(found, pickup) ==
  IF found = {} THEN <<>>
  ELSE LET d == CHOOSE x \in found : \A y \in found : x <= y
           rest == RideRequestMessages(found \ {d}, pickup)
       IN IF WithinRadius(pickup, locs[d])
          THEN <<ToUser("ride_request", d)>> \o rest
          ELSE rest

\* lines 90-164: db.Where(is_online AND is_available).Find(&locations) (500 when it
\* fails), the ride_request notifications to the drivers in range, 200
RequestRide_Notify(p) ==
  /\ pc[p] = "q_find"
  /\ UNCHANGED <<db, accepted, nreq, cache>>
  /\ \E ok \in BOOLEAN :
       IF ok
       THEN RespondSending(p, req[p], 200,
              RideRequestMessages(FindOnlineAvailable, req[p].pos))
       ELSE Respond(p, req[p], 500)

\* ------------------------------------------------------- specifications
\* the transitions of the explicit transition table and the presence updates
Guarded(p) ==
  \/ \E u \in Users, r \in RideIds : AcceptRide_Read(p, u, r)
  \/ AcceptRide_ReadLoc(p)
  \/ AcceptRide_Tx(p)
  \/ AcceptRide_Notify(p)
  \/ \E u \in Users, r \in RideIds : RejectRide_Read(p, u, r)
  \/ RejectRide_Save(p)
  \/ \E u \in Users, r \in RideIds : DriverArrived_Read(p, u, r)
  \/ DriverArrived_Save(p)
  \/ DriverArrived_Notify(p)
  \/ \E u \in Users, r \in RideIds : StartRide_Read(p, u, r)
  \/ StartRide_Save(p)
  \/ StartRide_Notify(p)
  \/ \E u \in Users, r \in RideIds, a \in Actuals : CompleteTrip_Read(p, u, r, a)
  \/ CompleteTrip_CheckExisting(p)
  \/ CompleteTrip_Tx(p)
  \/ CompleteTrip_Commit(p)
  \/ CompleteTrip_Notify(p)
  \/ \E u \in Users, r \in RideIds : CancelRide_Read(p, u, r)
  \/ CancelRide_Save(p)
  \/ CancelRide_ReadLoc(p)
  \/ CancelRide_SaveLoc(p)
  \/ \E u \in Users, pos \in Positions : UpdateDriverLocation_Read(p, u, pos)
  \/ UpdateDriverLocation_Write(p)
  \/ \E u \in Users, av \in BOOLEAN : UpdateDriverAvailability_Set(p, u, av)
  \/ UpdateDriverAvailability_Read(p)
  \/ UpdateDriverAvailability_Save(p)
  \/ \E u \in Users, pickup \in Positions : RequestRide_Create(p, u, pickup)
  \/ RequestRide_Notify(p)

\* the generic status update (PATCH /rides/:rideId/status)
Generic(p) ==
  \/ \E u \in Users, r \in RideIds, st \in StatusInputs : UpdateRideStatus_Read(p, u, r, st)
  \/ UpdateRideStatus_Save(p)

\* completing a trip, rating it and reading its completion
Trip(p) ==
  \/ \E u \in Users, r \in RideIds, a \in Actuals : CompleteTrip_Read(p, u, r, a)
  \/ CompleteTrip_CheckExisting(p)
  \/ CompleteTrip_Tx(p)
  \/ CompleteTrip_Commit(p)
  \/ CompleteTrip_Notify(p)
  \/ \E u \in Users, r \in RideIds, rating \in Ratings : RateTrip_Read(p, u, r, rating)
  \/ RateTrip_Save(p)
  \/ \E u \in Users, r \in RideIds : GetTripCompletion(p, u, r)

\* the four transitions a driver takes a ride through
Drive(p) ==
  \/ \E u \in Users, r \in RideIds : AcceptRide_Read(p, u, r)
  \/ AcceptRide_ReadLoc(p)
  \/ AcceptRide_Tx(p)
  \/ AcceptRide_Notify(p)
  \/ \E u \in Users, r \in RideIds : DriverArrived_Read(p, u, r)
  \/ DriverArrived_Save(p)
  \/ DriverArrived_Notify(p)
  \/ \E u \in Users, r \in RideIds : StartRide_Read(p, u, r)
  \/ StartRide_Save(p)
  \/ StartRide_Notify(p)
  \/ \E u \in Users, r \in RideIds, a \in Actuals : CompleteTrip_Read(p, u, r, a)
  \/ CompleteTrip_CheckExisting(p)
  \/ CompleteTrip_Tx(p)
  \/ CompleteTrip_Commit(p)
  \/ CompleteTrip_Notify(p)
  \/ \E u \in Users : GetDriverAssignedRides(p, u)

Next == \E p \in Procs : Guarded(p) \/ Generic(p)
NextDrive == (\E p \in Procs : Drive(p)) \/ (\E c \in Conns : WritePump(c))
\* the Hub, its connections and its callers
NextHub ==
  \/ \E c \in Conns : HandleWebSocket(c)
  \/ \E c \in Conns : ReadPump_End(c)
  \/ \E c \in Conns : Unregister(c)
  \/ \E c \in Conns : WritePump(c)
  \/ \E p \in Procs, m \in Messages : Broadcast_Begin(p, m)
  \/ \E p \in Procs : Broadcast_Range(p)
  \/ \E p \in Procs : Broadcast_Offer(p)
  \/ \E p \in Procs : Broadcast_Evict(p)
NextTrip == \E p \in Procs : Trip(p)
NextGuarded == \E p \in Procs : Guarded(p)

\* the database with ride 1 under way: started, driver 1 bound and unavailable
TripState ==
  /\ rides = [r \in RideIds |-> IF r = 1 THEN RideRequest(3, 1, RideStatusStarted)
                                 ELSE NoRide]
  /\ locs = [d \in Drivers |-> IF d = 1 THEN DriverLocation(TRUE, FALSE, 0) ELSE NoLoc]
  /\ completions = {}
  /\ pc = [p \in Procs |-> "idle"]
  /\ req = [p \in Procs |-> NoRequest]
  /\ snapRide = [p \in Procs |-> NoRide]
  /\ snapLoc = [p \in Procs |-> NoLoc]
  /\ snapTrip = [p \in Procs |-> NoCompletion]
  /\ iter = [p \in Procs |-> NoIter]
  /\ out = NoOut
  /\ sent = <<>>
  /\ accepted = [r \in RideIds |-> IF r = 1 THEN {1} ELSE {}]
  /\ nreq = 0
  /\ cache = [d \in Drivers |-> IF d = 1 THEN "false" ELSE ""]

InitTrip == TripState /\ NewHub /\ overlap = TRUE

\* ride 1 pending and its client 3 connected (connection 1), driver 1 connected
\* (connection 3) and available; ride 2 of client 4 under way with driver 2;
\* requests arrive one at a time
InitDrive ==
  /\ rides = [r \in RideIds |-> IF r = 1 THEN RideRequest(3, 0, RideStatusPending)
                                 ELSE RideRequest(4, 2, RideStatusStarted)]
  /\ locs = [d \in Drivers |-> IF d = 1 THEN DriverLocation(TRUE, TRUE, 0)
                                ELSE DriverLocation(TRUE, FALSE, 0)]
  /\ completions = {}
  /\ pc = [p \in Procs |-> "idle"]
  /\ req = [p \in Procs |-> NoRequest]
  /\ snapRide = [p \in Procs |-> NoRide]
  /\ snapLoc = [p \in Procs |-> NoLoc]
  /\ snapTrip = [p \in Procs |-> NoCompletion]
  /\ iter = [p \in Procs |-> NoIter]
  /\ out = NoOut
  /\ sent = <<>>
  /\ accepted = [r \in RideIds |-> IF r = 2 THEN {2} ELSE {}]
  /\ nreq = 0
  /\ cache = [d \in Drivers |-> IF d = 2 THEN "false" ELSE ""]
  /\ clients = {1, 3}
  /\ send = [c \in Conns |-> <<>>]
  /\ closed = {}
  /\ wire = [c \in Conns |-> <<>>]
  /\ pumps = [c \in Conns |-> IF c \in {1, 3} THEN Pumping ELSE NoPumps]
  /\ overlap = FALSE

\* every handler, any interleaving
Spec == Init /\ [][Next]_vars
\* without the generic status update
SpecGuarded == Init /\ [][NextGuarded]_vars
\* every handler, requests that do not overlap
SpecSeq == InitSeq /\ [][Next]_vars
\* the trip handlers on a ride under way, any interleaving
SpecTrip == InitTrip /\ [][NextTrip]_vars
\* a driver taking a ride through its transitions while the client is connected
SpecDrive == InitDrive /\ [][NextDrive]_vars

\* AcceptRide and UpdateDriverAvailability requests, overlapping
Avail(p) ==
  \/ \E u \in Users, r \in RideIds : AcceptRide_Read(p, u, r)
  \/ AcceptRide_ReadLoc(p)
  \/ AcceptRide_Tx(p)
  \/ AcceptRide_Notify(p)
  \/ \E u \in Users, av \in BOOLEAN : UpdateDriverAvailability_Set(p, u, av)
  \/ UpdateDriverAvailability_Read(p)
  \/ UpdateDriverAvailability_Save(p)
NextAvail == \E p \in Procs : Avail(p)
SpecAvail == Init /\ [][NextAvail]_vars

\* accept, complete, cancel and UpdateDriverAvailability requests, one at a time,
\* with ride 2 under way with driver 2
Cached(p) ==
  \/ Avail(p)
  \/ \E u \in Users, r \in RideIds, a \in Actuals : CompleteTrip_Read(p, u, r, a)
  \/ CompleteTrip_CheckExisting(p)
  \/ CompleteTrip_Tx(p)
  \/ CompleteTrip_Commit(p)
  \/ CompleteTrip_Notify(p)
  \/ \E u \in Users, r \in RideIds : CancelRide_Read(p, u, r)
  \/ CancelRide_Save(p)
  \/ CancelRide_ReadLoc(p)
  \/ CancelRide_SaveLoc(p)
NextCache == \E p \in Procs : Cached(p)
SpecCache == InitDrive /\ [][NextCache]_vars
\* the Hub from NewHub on, with connections coming and going
\* the Hub some time into its run: user 3 holds two connections, and the reader
\* of the first is slow, so that its queue is full
InitHub ==
  /\ TripState
  /\ clients = {1, 2}
  /\ send = [c \in Conns |-> IF c = 1 THEN [i \in 1..SendCap |-> ToUser("ride_status_update", 3)]
                              ELSE <<>>]
  /\ closed = {}
  /\ wire = [c \in Conns |-> <<>>]
  /\ pumps = [c \in Conns |-> IF c \in {1, 2} THEN Pumping ELSE NoPumps]
  /\ overlap = TRUE

SpecHub == InitHub /\ [][NextHub]_vars

\* the teardown of connections under Hub calls: no new connection arrives, and the
\* calls are addressed to the user of the two connections or to everyone
NextClose ==
  \/ \E c \in Conns : ReadPump_End(c)
  \/ \E c \in Conns : Unregister(c)
  \/ \E c \in Conns : WritePump(c)
  \/ \E p \in Procs, m \in {m \in Messages : m.user = 3 \/ m.role = ToAll} :
       Broadcast_Begin(p, m)
  \/ \E p \in Procs : Broadcast_Range(p)
  \/ \E p \in Procs : Broadcast_Offer(p)
  \/ \E p \in Procs : Broadcast_Evict(p)

\* every goroutine that can take a step is scheduled in the end: Hub.Run, the
\* writePump of each connection, and each handler inside a Hub call
FairClose ==
  /\ \A c \in Conns : WF_vars(Unregister(c)) /\ WF_vars(WritePump(c))
  /\ \A p \in Procs :
       WF_vars(Broadcast_Range(p)) /\ WF_vars(Broadcast_Offer(p)) /\ WF_vars(Broadcast_Evict(p))

SpecClose == InitHub /\ [][NextClose]_vars /\ FairClose

\* ------------------------------------------------------------- vocabulary
\* goroutine p takes this step
Acts(p) == pc'[p] # pc[p]

\* this step writes a response with this status
Answers(code) == out' # NoOut /\ out'.code = code

IsError(code) == code >= 400

\* handler positions after the handler's write of the ride has been committed
RideWritten == {"a_post", "d_post", "s_post", "c_post", "k_loc", "k_saveloc"}
\* ... and after its write of the driver's presence has been committed
PresenceWritten == {"a_post", "c_post"}

\* the transition graph of section 4.1
TransitionGraph ==
  {<<RideStatusPending, RideStatusAccepted>>,
   <<RideStatusPending, RideStatusCancelled>>,
   <<RideStatusAccepted, RideStatusArrived>>,
   <<RideStatusAccepted, RideStatusStarted>>,
   <<RideStatusAccepted, RideStatusCancelled>>,
   <<RideStatusArrived, RideStatusStarted>>,
   <<RideStatusArrived, RideStatusCancelled>>,
   <<RideStatusStarted, RideStatusCompleted>>,
   <<RideStatusStarted, RideStatusCancelled>>}

BoundActiveRides(d) ==
  {r \in RideIds : rides[r].driver = d /\ rides[r].status \in Active}

\* ------------------------------------------------------------------ claims

\* C1: of the AcceptRide requests for one pending ride, by different drivers and
\* processed concurrently, exactly one is answered 200: no ride ever has two
\* drivers that were told their accept succeeded.
C1_AtMostOneAcceptSucceeds ==
  \A r \in RideIds : Cardinality(accepted[r]) <= 1

\* C2: in every reachable state a ride's driver reference is set if and only if
\* its status is accepted, arrived, started or completed.
C2_DriverSetIffAssignedStatus ==
  \A r \in RideIds :
    rides[r] # NoRide =>
      (rides[r].driver # 0 <=>
         rides[r].status \in Active \cup {RideStatusCompleted})

\* C3: once a ride is completed or cancelled no later request changes its
\* status or any other field (requests served one after another, so every
\* request that writes is a later one).
C3_TerminalIsFinal ==
  [][\A r \in RideIds :
       rides[r].status \in Terminal => rides'[r] = rides[r]]_vars

\* C4: accept, complete and cancel with a bound driver change the ride and the
\* driver's presence atomically: no observable state has a handler's write of
\* the ride without its write of the presence record.
C4_RideAndPresenceTogether ==
  \A p \in Procs :
    (pc[p] \in RideWritten /\ req[p].op \in {"accept", "complete", "cancel"}
       /\ snapRide[p].driver # 0 /\ locs[snapRide[p].driver].exists)
      => pc[p] \in PresenceWritten

\* C5: whenever one of the seven ride handlers answers with an error status,
\* the ride, the presence records and the trip completions are as they were
\* before the request: the answering step changes nothing and the handler had
\* committed no write.
C5_Ops == {"accept", "reject", "arrived", "start", "complete", "cancel", "update"}
C5_ErrorsChangeNothing ==
  [][(out' # NoOut /\ IsError(out'.code) /\ out'.op \in C5_Ops) =>
       /\ db' = db
       /\ \A p \in Procs : Acts(p) => pc[p] \notin RideWritten]_vars

\* C6: in every reachable state each driver is the bound driver of at most one
\* ride whose status is accepted, arrived or started.
C6_OneActiveRidePerDriver ==
  \A d \in Drivers : Cardinality(BoundActiveRides(d)) <= 1

\* C7: under any interleaving of DriverArrived, StartRide, CompleteTrip and
\* CancelRide, every change these handlers make to a ride's persisted status
\* is an edge of the transition graph.
C7_Writes == {"d_save", "s_save", "c_commit", "k_save"}
C7_StatusFollowsGraph ==
  [][\A p \in Procs :
       (Acts(p) /\ pc[p] \in C7_Writes) =>
         LET r == req[p].ride IN
           rides'[r].status # rides[r].status =>
             <<rides[r].status, rides'[r].status>> \in TransitionGraph]_vars

\* C8: when requests do not overlap, accept and reject write only to a pending
\* ride (accept only for an available driver), arrive only to an accepted ride,
\* start only to an accepted or arrived ride, complete only to a started ride;
\* a request of the bound driver (any driver, for accept and reject) whose
\* precondition fails is answered 400, and a 400 changes no record.
C8_Precondition(op, ride) ==
  CASE op = "accept" -> ride.status = RideStatusPending
    [] op = "reject" -> ride.status = RideStatusPending
    [] op = "arrived" -> ride.status = RideStatusAccepted
    [] op = "start" -> ride.status \in {RideStatusAccepted, RideStatusArrived}
    [] op = "complete" -> ride.status = RideStatusStarted
    [] OTHER -> TRUE
C8_Ops == {"accept", "reject", "arrived", "start", "complete"}
C8_WriteSteps == {"a_tx", "j_save", "d_save", "s_save", "c_commit"}
\* the request a step starts, if it starts one
C8_Started(p) == IF out' # NoOut THEN out' ELSE req'[p]
C8_GuardsWhenSequential ==
  [][/\ \A p \in Procs :
          (Acts(p) /\ pc[p] \in C8_WriteSteps /\ db' # db) =>
            /\ C8_Precondition(req[p].op, rides[req[p].ride])
            /\ req[p].op = "accept" => locs[req[p].user].available
     /\ \A p \in Procs :
          (nreq' # nreq /\ (Acts(p) \/ out' # NoOut)) =>
            LET rq == C8_Started(p) IN
              (/\ rq.op \in C8_Ops
               /\ UserType(rq.user) = UserTypeDriver
               /\ rides[rq.ride] # NoRide
               /\ rq.op \in {"arrived", "start", "complete"} =>
                    rides[rq.ride].driver = rq.user
               /\ ~C8_Precondition(rq.op, rides[rq.ride]))
                => Answers(400)
     /\ \A p \in Procs :
          (Acts(p) /\ pc[p] = "a_loc" /\ ~locs[req[p].user].available) => Answers(400)
     /\ Answers(400) =>
          /\ db' = db
          /\ \A p \in Procs : Acts(p) => pc[p] \notin RideWritten]_vars

\* a second driver's accept, after another driver's accept succeeded, was answered 400
C8_Witness ==
  /\ out.op = "accept" /\ out.code = 400
  /\ rides[out.ride].status = RideStatusAccepted
  /\ rides[out.ride].driver \notin {0, out.user}
  /\ accepted[out.ride] = {rides[out.ride].driver}

\* C9: DriverArrived, StartRide and CompleteTrip change a ride only when the
\* caller is the driver bound to it at that moment; CancelRide and
\* UpdateRideStatus only when the caller is its client or its bound driver.
C9_OnlyAuthorizedCallersChange ==
  [][\A p \in Procs :
       LET r == req[p].ride
           u == req[p].user
       IN (Acts(p) /\ r \in RideIds /\ rides'[r] # rides[r]) =>
            /\ req[p].op \in {"arrived", "start", "complete"} =>
                 rides[r].driver = u
            /\ req[p].op \in {"cancel", "update"} =>
                 (rides[r].client = u \/ rides[r].driver = u)]_vars

\* C10: whenever a ride with a bound driver enters completed or cancelled, by
\* whichever operation, that driver's presence has available = true once the
\* operation has answered.
C10_TerminalFreesDriver ==
  [][\A p \in Procs :
       LET r == req[p].ride
           d == snapRide[p].driver
       IN (/\ Acts(p) /\ Answers(200) /\ d # 0
           /\ \/ /\ req[p].op = "update"
                 /\ rides[r].status \notin Terminal
                 /\ rides'[r].status \in Terminal
              \/ req[p].op \in {"cancel", "complete"})
            => locs'[d].available]_vars

\* C11: in every reachable state every driver-presence record with
\* available = true also has online = true.
C11_AvailableImpliesOnline ==
  \A d \in Drivers : (locs[d].exists /\ locs[d].available) => locs[d].online

\* a driver bound to a ride has made themselves available again
C11_Witness ==
  /\ out.op = "availability" /\ out.code = 200
  /\ locs[out.user].available /\ locs[out.user].online
  /\ \E r \in RideIds : rides[r].driver = out.user

\* C12: once an accept has been answered 200 for a ride, the ride's driver
\* reference is neither replaced nor cleared by any step while the ride is
\* accepted, arrived or started.
C12_BoundDriverNeverChanges ==
  [][\A r \in RideIds :
       (accepted[r] # {} /\ rides[r].status \in Active)
         => rides'[r].driver = rides[r].driver]_vars

\* C13: in every reachable state each ride's status is one of pending,
\* accepted, arrived, started, completed, cancelled.
C13_StatusIsOneOfSix ==
  \A r \in RideIds : rides[r] # NoRide => rides[r].status \in RideStatuses

\* C14: a CancelRide that directly follows a successful CancelRide of the same
\* ride, by a caller authorized for the ride, is answered 400, changes neither
\* the ride nor any presence record nor any trip completion, and hands no
\* message to the Hub.
C14_SecondCancelIsRefused ==
  [][\A p \in Procs :
       LET rq == C8_Started(p) IN
         (/\ nreq' # nreq /\ (Acts(p) \/ out' # NoOut)
          /\ rq.op = "cancel"
          /\ out.op = "cancel" /\ out.code = 200 /\ out.ride = rq.ride
          /\ AuthorizedParty(rides[rq.ride], rq.user))
           => /\ Answers(400)
              /\ db' = db
              /\ sent' = <<>>
              /\ hub' = hub]_vars

\* the second cancel of a ride that had a driver: refused, the driver still free
C14_Witness ==
  /\ out.op = "cancel" /\ out.code = 400
  /\ rides[out.ride].status = RideStatusCancelled
  /\ rides[out.ride].driver # 0
  /\ locs[rides[out.ride].driver].available

\* C15: the completion row created by a successful CompleteTrip holds the
\* submitted (actualFare, actualDistance, actualDuration); no later step, a
\* RateTrip by either party included, changes these values or removes the row;
\* and GetTripCompletion returns the values of the row.
C15_ActualsAreKept ==
  [][/\ \A p \in Procs :
          (Acts(p) /\ pc[p] = "c_commit" /\ completions' # completions) =>
            \E row \in completions' \ completions :
              row.ride = req[p].ride /\ row.actual = req[p].actual
     /\ \A row \in completions :
          /\ \E row2 \in completions' : row2.ride = row.ride
          /\ \A row2 \in completions' : row2.ride = row.ride => row2.actual = row.actual
     /\ (out' # NoOut /\ out'.op = "get_completion" /\ out'.code = 200) =>
          \E row \in completions : row.ride = out'.ride /\ row.actual = out'.actual]_vars

\* a completion read after it has been rated
C15_Witness ==
  /\ out.op = "get_completion" /\ out.code = 200
  /\ \E row \in CompletionsOf(out.ride) :
       /\ row.actual = out.actual
       /\ row.clientRating # 0 \/ row.driverRating # 0

\* C16: in every reachable state a ride has at most one TripCompletion, and a
\* CompleteTrip that finds the ride with a TripCompletion, when it arrives or at
\* any of its later statements because an overlapping CompleteTrip committed
\* first, answers with an error and creates or modifies no record.
C16_OneCompletionPerRide ==
  /\ [](\A r \in RideIds : Cardinality(CompletionsOf(r)) <= 1)
  /\ [][\A p \in Procs :
          /\ (/\ nreq' # nreq /\ (Acts(p) \/ out' # NoOut)
              /\ C8_Started(p).op = "complete"
              /\ HasCompletion(C8_Started(p).ride))
               => (out' # NoOut /\ IsError(out'.code) /\ db' = db)
          /\ (/\ Acts(p)
              /\ pc[p] \in {"c_chk", "c_tx", "c_commit"}
              /\ HasCompletion(req[p].ride))
               => (out' # NoOut /\ IsError(out'.code) /\ db' = db)]_vars

\* of two overlapping CompleteTrip one committed; the other, past its checks, failed
C16_Witness ==
  /\ out.op = "complete" /\ out.code = 500
  /\ Cardinality(CompletionsOf(out.ride)) = 1
  /\ rides[out.ride].status = RideStatusCompleted
  /\ \E p \in Procs : pc[p] = "c_post" /\ req[p].ride = out.ride

\* the types of the messages a connection's writePump has written
RECURSIVE Types(_)
Types(msgs) == IF msgs = <<>> THEN <<>> ELSE <<Head(msgs).type>> \o Types(Tail(msgs))

IsPrefix(a, b) == Len(a) <= Len(b) /\ a = SubSeq(b, 1, Len(a))

\* C17: while a driver takes a ride through accept, arrived, start and
\* complete, what a registered connection of the ride's client has received is
\* an initial part of [ride_accepted, driver_arrived, ride_started,
\* ride_completed]: in that order, one event per transition, none repeated.
C17_ClientSeesEachTransitionOnce ==
  \A c \in clients :
    ConnUser(c) \in Clients =>
      IsPrefix(Types(wire[c]),
               <<"ride_accepted", "driver_arrived", "ride_started", "ride_completed">>)

\* the step hands the Hub a message for user u
SendsTo(u) == \E i \in 1..Len(sent') : sent'[i].user = u

\* C18: every accept, reject, arrive, start, complete or cancel that is
\* answered 200 hands the Hub at least one message addressed to the ride's
\* client, and a handler of these hands over such a message only when it answers
\* 200 with the ride in the status the transition leads to.
C18_Ops == {"accept", "reject", "arrived", "start", "complete", "cancel"}
C18_Target(op) ==
  CASE op = "accept" -> RideStatusAccepted
    [] op = "arrived" -> RideStatusArrived
    [] op = "start" -> RideStatusStarted
    [] op = "complete" -> RideStatusCompleted
    [] OTHER -> RideStatusCancelled
C18_EveryTransitionIsAnnounced ==
  [][(out' # NoOut /\ out'.op \in C18_Ops) =>
       LET r == out'.ride IN
         /\ out'.code = 200 => SendsTo(rides'[r].client)
         /\ (rides'[r] # NoRide /\ SendsTo(rides'[r].client)) =>
              (out'.code = 200 /\ rides'[r].status = C18_Target(out'.op))]_vars

\* C19: when RequestRide's search for drivers succeeds it hands the Hub one
\* ride_request for each driver whose presence record, at that moment, is
\* online, available and within 10 of the pickup, and nothing else; a driver
\* who is not available gets none; the ride was created pending and the
\* notification step changes no record, whatever its outcome.
C19_RideRequestToNearbyAvailable ==
  [][\A p \in Procs :
       /\ (Acts(p) /\ pc[p] = "q_find") =>
            /\ db' = db
            /\ out'.code = 200 =>
                 /\ \A d \in Drivers :
                      SendsTo(d) <=>
                        /\ locs[d].exists /\ locs[d].online /\ locs[d].available
                        /\ locs[d].pos - req[p].pos \in (0 - SearchRadius)..SearchRadius
                 /\ \A i \in 1..Len(sent') :
                      /\ sent'[i].type = "ride_request" /\ sent'[i].user \in Drivers
                      /\ \A j \in 1..Len(sent') : sent'[j] = sent'[i] => j = i
            /\ out'.code # 200 => sent' = <<>>
       /\ (Acts(p) /\ pc'[p] = "q_find") =>
            rides'[req'[p].ride] = RideRequest(req'[p].user, 0, RideStatusPending)]_vars

\* a ride requested beside two drivers, one of whom is online but not available
\* and bound to no ride: only the other was notified
C19_Witness ==
  /\ out.op = "request" /\ out.code = 200
  /\ rides[out.ride].status = RideStatusPending
  /\ \E d1, d2 \in Drivers :
       /\ sent = <<ToUser("ride_request", d1)>>
       /\ locs[d2].exists /\ locs[d2].online /\ ~locs[d2].available
       /\ \A r \in RideIds : rides[r].driver # d2

\* C20: a BroadcastToUser(u, m) call has, when it returns, put m on the queue of
\* every connection of user u that is registered (those it found full it has
\* evicted) and on no connection of another user; so whatever a connection holds
\* or has written was addressed to its user, to its user's role or to everyone.
C20_Addressed(c, m) ==
  \/ m.user = ConnUser(c)
  \/ m.user = 0 /\ m.role \in {UserType(ConnUser(c)), ToAll}
C20_OnlyTheAddressedUser ==
  /\ [][\A p \in Procs :
          (/\ pc[p] \in InBroadcast /\ pc'[p] = "idle"
           /\ out' # NoOut /\ iter[p].m.user # 0) =>
            /\ \A c \in clients' : ConnUser(c) = iter[p].m.user => c \in iter[p].got
            /\ \A c \in iter[p].got : ConnUser(c) = iter[p].m.user]_vars
  /\ [](\A c \in Conns :
          /\ \A i \in 1..Len(send[c]) : C20_Addressed(c, send[c][i])
          /\ \A i \in 1..Len(wire[c]) : C20_Addressed(c, wire[c][i]))

\* C21: a Hub call (BroadcastToUser, BroadcastToUserType, BroadcastToAll) is never
\* held up by a full queue: each connection it visits either gets the message or,
\* its queue being full, is passed over (or evicted), and when the call returns it
\* has visited every registered connection it addresses.
C21_FullQueueStopsNobodyElse ==
  [][\A p \in Procs :
       (pc[p] \in InBroadcast /\ pc'[p] = "idle" /\ out' # NoOut) =>
         /\ out'.code = 200
         /\ \A c \in clients' : Addressed(c, iter[p].m) => c \in iter[p].seen
         /\ \A c \in iter[p].seen \cap clients' :
              c \in iter[p].got \/ iter[p].m.role = ToAll]_vars

\* C23: when Hub.Run serves the unregister of a connection that is registered no
\* longer (a sender has evicted it), nothing happens: the registry, the queues and
\* the closed queues stay as they are, and no other connection is touched.
C23_UnregisterAbsentIsNoOp ==
  [][\A c \in Conns :
       (/\ pumps[c].read = "ended" /\ pumps'[c].read = "done"
        /\ c \notin clients
        /\ \A p \in Procs : pc[p] \notin InBroadcast) =>
         /\ out' = Disconnected(c, FALSE)
         /\ UNCHANGED <<clients, closed, send, wire, pc, iter>>
         /\ \A c2 \in Conns \ {c} : pumps'[c2] = pumps[c2]]_vars

\* Hub.Run has just served the unregister of a connection that a sender had
\* evicted, while the user's other connection is registered
C23_Witness ==
  /\ out.op = "unregister" /\ out.code = 0
  /\ \E c \in Conns :
       /\ ConnUser(c) = out.user
       /\ pumps[c].read = "done" /\ c \in closed /\ c \notin clients
  /\ \E c \in clients : ConnUser(c) = out.user

\* C22: once the readPump of a connection has ended, the connection is in the end
\* out of the registry with its queue closed and its writePump returned; and once
\* Hub.Run has served its unregister, it is out of the registry, its queue is
\* closed, and no Hub call puts a message on the queue any more.
C22_TornDownInTheEnd ==
  /\ \A c \in Conns :
       (pumps[c].read = "ended") ~>
         (c \notin clients /\ c \in closed /\ pumps[c].write = "stopped")
  /\ [](\A c \in Conns : pumps[c].read = "done" => c \notin clients /\ c \in closed)
  /\ [][\A c \in Conns :
          pumps[c].read = "done" =>
            \/ send'[c] = send[c]
            \/ send[c] # <<>> /\ send'[c] = Tail(send[c])]_vars

\* a connection torn down while it was registered and held messages, all of which
\* its writePump wrote before it returned
C22_Witness ==
  \E c \in Conns :
    /\ pumps[c] = Pumps("done", "stopped")
    /\ send[c] = <<>> /\ Len(wire[c]) = SendCap
    /\ c \notin clients /\ c \in closed

\* a goroutine inside a Hub call sends on a queue that is closed, or closes one
\* that is closed: either panics
SendOnClosed(p) ==
  pc[p] = "b_offer" /\ iter[p].cur \in closed /\ pc'[p] = "idle" /\ out'.code = 500
CloseOfClosed(p) ==
  pc[p] = "b_evict" /\ iter[p].cur \in closed /\ pc'[p] = "idle" /\ out'.code = 500

\* C26: whatever the interleaving of BroadcastToUser, BroadcastToUserType and
\* BroadcastToAll calls with register and unregister, no call sends on a queue that
\* has been closed and no queue is closed twice.
C26_NoSendOnClosedNoDoubleClose ==
  [][\A p \in Procs : ~SendOnClosed(p) /\ ~CloseOfClosed(p)]_vars

\* C27: a BroadcastToUser or BroadcastToUserType call that finds a queue full goes
\* on to evict the connection, and its eviction leaves the queue closed and the
\* connection out of the registry; a BroadcastToAll call that finds a queue full
\* goes on with its loop and changes nothing; and nothing is put on a queue once
\* it is closed.
C27_EvictOrSkip ==
  /\ [][\A p \in Procs :
          LET c == iter[p].cur
              m == iter[p].m
          IN /\ (/\ pc[p] = "b_offer" /\ pc'[p] \in {"b_range", "b_evict"}
                 /\ c \notin closed /\ Len(send[c]) >= SendCap) =>
                  IF m.role = ToAll
                  THEN pc'[p] = "b_range" /\ UNCHANGED <<clients, closed, send>>
                  ELSE pc'[p] = "b_evict"
             /\ (pc[p] = "b_evict" /\ pc'[p] # "b_evict") =>
                  c \notin clients' /\ c \in closed']_vars
  /\ [][\A c \in closed :
          \/ send'[c] = send[c]
          \/ send[c] # <<>> /\ send'[c] = Tail(send[c])]_vars

\* what a connection has been given so far
Given(c) == wire[c] \o send[c]

\* a message to everyone, then one to user 3: the first passed over the full
\* connection and left it registered, the second evicted it (its readPump is
\* still reading), and the user's other connection got both
C27_Witness ==
  \E c, c2 \in Conns :
    /\ c \in closed /\ c \notin clients /\ pumps[c].read = "reading"
    /\ Len(Given(c)) = SendCap
    /\ \A i \in 1..Len(Given(c)) : Given(c)[i].role # ToAll
    /\ c2 \in clients /\ ConnUser(c2) = ConnUser(c)
    /\ Len(Given(c2)) = 2
    /\ Given(c2)[1].role = ToAll /\ Given(c2)[2].user = ConnUser(c)

\* C24: an AcceptRide that overlaps an UpdateDriverAvailability of the same driver
\* acts as if one came wholly before the other: it never commits on an availability
\* that a committed setAvailability(false) has replaced, that is, when it commits
\* for a driver bound to no active ride, the stored record says available.
C24_AcceptAndAvailabilitySerialize ==
  [][\A p \in Procs :
       (/\ pc[p] = "a_tx" /\ pc'[p] = "a_post"
        /\ BoundActiveRides(req[p].user) = {}) =>
         locs[req[p].user].available]_vars

\* C25: UpdateDriverAvailability of a driver who has no presence record is answered
\* 404 and changes nothing: from the arrival of the request to its answer, no
\* record is written and the driver's cached availability stays as it was.
C25_NoRecordNoChange ==
  [][\A p \in Procs :
       /\ (/\ pc[p] = "idle" /\ Acts(p) /\ req'[p].op = "availability"
           /\ ~locs[req'[p].user].exists) =>
            db' = db /\ cache' = cache
       /\ (pc[p] = "v_read" /\ Acts(p) /\ ~locs[req[p].user].exists) =>
            Answers(404) /\ db' = db /\ cache' = cache]_vars

\* C28: UpdateDriverLocation leaves the stored availability as it is, and no other
\* request changes a stored position.
C28_LocationAndAvailabilityApart ==
  [][\A d \in Drivers :
       locs[d].exists =>
         /\ (\E p \in Procs : pc[p] = "l_write" /\ Acts(p) /\ req[p].user = d) =>
              locs'[d].available = locs[d].available
         /\ ~(\E p \in Procs : pc[p] = "l_write" /\ Acts(p) /\ req[p].user = d) =>
              locs'[d].pos = locs[d].pos]_vars

\* the isAvailable GetDriverStatus answers: the cached value, the stored one when
\* the cache has no entry
GetDriverStatus_isAvailable(d) ==
  IF cache[d] # "" THEN cache[d] = "true" ELSE locs[d].available

\* C29: after a request has been answered 200 and no request is being served, the
\* cached availability of every driver who has an entry is the available flag of
\* the driver's stored presence record.
C29_CacheMatchesStore ==
  (out.code = 200 /\ \A p \in Procs : pc[p] = "idle") =>
    \A d \in Drivers :
      cache[d] # "" => locs[d].exists /\ GetDriverStatus_isAvailable(d) = locs[d].available

\* C30: GetDriverAssignedRides answers a driver with exactly the rides bound to
\* the driver whose status is accepted, arrived or started.
C30_AssignedRidesAreTheActiveOnes ==
  [][(out'.op = "assigned" /\ out'.code = 200 /\ out' # out) =>
       out'.found = {r \in RideIds : /\ rides[r].driver = out'.user
                                     /\ rides[r].status \in Active}]_vars

=============================================================================
